---- MODULE Spec2Model ----
(***************************************************************************)
(* Key lifecycle controller of the Mbed Crypto provider                    *)
(* (src/providers/mbed_provider/key_management.rs).                        *)
(*                                                                         *)
(* Client threads call psa_generate_key_internal, psa_import_key_internal, *)
(* psa_export_public_key_internal and psa_destroy_key_internal on one      *)
(* MbedProvider.  The provider owns the key info store behind a RwLock     *)
(* (key_info_store), the backend guard (key_handle_mutex) and the atomic   *)
(* identifier counter (id_counter).  Every statement of a handler that     *)
(* touches shared state is one action; a store or backend call may return  *)
(* Err, and a call that returns Err leaves the callee's state as it was.   *)
(***************************************************************************)
EXTENDS Integers, Naturals, Sequences, FiniteSets, TLC

\* ------------------------------------------------------------------ bounds
\* number of key triples the clients name
NTriples == 2
\* number of handler calls in one run
MaxOps == 3
\* the runs that start near the identifier limit start this far below it
NearMax == 1

\* key::PSA_KEY_ID_USER_MAX = 0x3fffffff
PSA_KEY_ID_USER_MAX == 1073741823

\* two client threads; two key attribute values (the key's size in bytes)
Threads == {1, 2}
Triples == 1..NTriples
Attributes == {1, 2}
NoThread == 0

None == [none |-> TRUE]

Kinds == {"generate", "import", "export_public", "destroy"}
CreateKinds == {"generate", "import"}
\* psa_generate_key and psa_import_key carry attributes; the others carry none
OpAttributes(kind) == IF kind \in CreateKinds THEN Attributes ELSE {0}
NoOp == [kind |-> "none", key_triple |-> 0, attributes |-> 0]

\* ResponseStatus values the handlers return
Success == "Success"
Pending == "Pending"
PsaErrorAlreadyExists == "PsaErrorAlreadyExists"
PsaErrorDoesNotExist == "PsaErrorDoesNotExist"
PsaErrorInsufficientMemory == "PsaErrorInsufficientMemory"
KeyInfoManagerError == "KeyInfoManagerError"
BackendError == "BackendError"

\* ------------------------------------------------------------------ state
VARIABLES
    key_info_store,    \* the store: KeyTriple -> KeyInfo or None
    store_lock,        \* RwLock around the store: [writer, readers]
    key_handle_mutex,  \* holder of the backend guard, or NoThread
    id_counter,        \* AtomicU32 id_counter
    backend,           \* backend key table: psa_key_id_t -> attributes
    pc,                \* position of each thread in its handler
    op,                \* operation each thread is running (or ran last)
    key_id,            \* local new_key_id / key_id of each thread
    buffer,            \* local buffer of export_public
    export_length,     \* local export_length of export_public
    result,            \* value the handler returns
    snap,              \* history: store, counter, backend when the lock was granted
    trace,             \* history: calls that failed, backend calls, guard use
    seen,              \* history: threads active during the thread's operation
    issued,            \* history: ids bound by successful generate/import
    burned,            \* history: ids consumed by a failed backend create
    bound,             \* history: ids each triple was bound to, in order
    remove_failed,     \* history: triples whose store removal returned Err
    nops               \* number of calls made so far

vars == <<key_info_store, store_lock, key_handle_mutex, id_counter, backend, pc,
          op, key_id, buffer, export_length, result, snap, trace, seen, issued,
          burned, bound, remove_failed, nops>>

shared == <<key_info_store, store_lock, key_handle_mutex, id_counter, backend>>
history == <<issued, burned, bound, remove_failed>>
locals == <<buffer, export_length>>

\* ------------------------------------------------------ pure helpers
\* u32::to_ne_bytes: the four bytes of the identifier, in the byte order of
\* the build (least significant first here; from_ne_bytes uses the same order)
ToNeBytes(n) ==
    <<n % 256, (n \div 256) % 256, (n \div 65536) % 256, (n \div 16777216) % 256>>

\* u32::from_ne_bytes over the copied slice
FromNeBytes(b) == b[1] + 256 * b[2] + 65536 * b[3] + 16777216 * b[4]

\* KeyInfo { id: new_key_id.to_ne_bytes().to_vec(), attributes: key_attributes }
KeyInfo(new_key_id, key_attributes) ==
    [id |-> ToNeBytes(new_key_id), attributes |-> key_attributes]

\* store_handle.exists(key_triple) answering Ok
StoreExistsNever(store, key_triple) == FALSE
StoreExists(store, key_triple) == store[key_triple] # None

\* store_handle.insert(key_triple, key_info) answering Ok
StoreInsert(store, key_triple, key_info) == [store EXCEPT ![key_triple] = key_info]

\* store_handle.remove(key_triple) answering Ok
StoreRemoveKeep(store, key_triple) == store
StoreRemoveAll(store, key_triple) == [k \in DOMAIN store |-> None]
StoreRemove(store, key_triple) == [store EXCEPT ![key_triple] = None]

\* max_current_id.fetch_add(1, Relaxed): the value left in the counter.
\* fetch_add wraps at 2^32; create_key_id runs under the store's write lock
\* and clamps at PSA_KEY_ID_USER_MAX = 2^30 - 1, so the counter stays below
\* 2^30 + 1 and the wrap is never reached.
FetchAddSame(counter) == counter
FetchAdd(counter) == counter + 1

\* ... + 1: the local new_key_id computed from the value fetch_add returned
NewKeyIdOld(old) == old
NewKeyId(old) == old + 1

\* new_key_id > key::PSA_KEY_ID_USER_MAX
LimitNever(new_key_id) == FALSE
LimitReached(new_key_id) == new_key_id > PSA_KEY_ID_USER_MAX

\* max_current_id.store(key::PSA_KEY_ID_USER_MAX, Relaxed)
ClampOver == PSA_KEY_ID_USER_MAX + 1
ClampLow == PSA_KEY_ID_USER_MAX - 1
ClampValue == PSA_KEY_ID_USER_MAX

\* remove_key_id leaves the counter alone ("ID Counter not affected")
CounterReclaimed(counter) == counter - 1
CounterAfterRemove(counter) == counter

\* RwLock::write() returns once there is neither a writer nor a reader
WriteShared(lock) == TRUE
CanWriteWithReaders(lock) == lock.writer = NoThread
CanWrite(lock) == lock.writer = NoThread /\ lock.readers = {}

\* get_key_id: Ok(None) => Err(ResponseStatus::PsaErrorDoesNotExist)
NoRecordOther == KeyInfoManagerError
NoRecordStatus == PsaErrorDoesNotExist

\* RwLock::read() returns once there is no writer
CanReadAlways(lock) == TRUE
CanRead(lock) == lock.writer = NoThread

\* Mutex::lock() returns once the mutex is free
CanLockAlways(mutex) == TRUE
CanLock(mutex) == mutex = NoThread

\* backend key table after generate / import / destroy answered Ok
BackendCreated(table, id, attrs) ==
    [k \in (DOMAIN table) \cup {id} |-> IF k = id THEN attrs ELSE table[k]]
BackendDestroyed(table, id) == [k \in (DOMAIN table) \ {id} |-> table[k]]

Range(s) == {s[i] : i \in DOMAIN s}
Active(t) == pc[t] # "idle"
Returning(t) == pc[t] \in {"drop_guard", "drop_store"}
NoTrace == [store_err |-> FALSE, backend_err |-> FALSE, backend_calls |-> 0,
            guard |-> FALSE]
NoSnap == [store |-> << >>, ctr |-> 0, bk |-> << >>]

\* where a handler goes once its result is decided: the guards drop in
\* reverse order of declaration, _guard first, then store_handle
RetKeepGuard(t) == "drop_store"
Ret(t) == IF key_handle_mutex = t THEN "drop_guard" ELSE "drop_store"

\* ------------------------------------------------------------------ Init
InitCounters == {0, PSA_KEY_ID_USER_MAX - NearMax}

Init ==
    /\ key_info_store = [k \in Triples |-> None]
    /\ store_lock = [writer |-> NoThread, readers |-> {}]
    /\ key_handle_mutex = NoThread
    /\ id_counter \in InitCounters
    /\ backend = << >>
    /\ pc = [t \in Threads |-> "idle"]
    /\ op = [t \in Threads |-> NoOp]
    /\ key_id = [t \in Threads |-> 0]
    /\ buffer = [t \in Threads |-> << >>]
    /\ export_length = [t \in Threads |-> 0]
    /\ result = [t \in Threads |-> Pending]
    /\ snap = [t \in Threads |-> NoSnap]
    /\ trace = [t \in Threads |-> NoTrace]
    /\ seen = [t \in Threads |-> {}]
    /\ issued = << >>
    /\ burned = {}
    /\ bound = [k \in Triples |-> << >>]
    /\ remove_failed = {}
    /\ nops = 0

\* ---------------------------------------------------------- entering a handler
\* A client thread calls one of the four handlers and blocks on the store
\* lock.  The arguments of the call are not read by anyone until the lock is
\* granted, so they are drawn there (AcquireWrite, AcquireRead).
Call(t) ==
    /\ pc[t] = "idle"
    /\ nops < MaxOps
    /\ nops' = nops + 1
    /\ op' = [op EXCEPT ![t] = NoOp]
    /\ pc' = [pc EXCEPT ![t] = "lock_store"]
    /\ key_id' = [key_id EXCEPT ![t] = 0]
    /\ buffer' = [buffer EXCEPT ![t] = << >>]
    /\ export_length' = [export_length EXCEPT ![t] = 0]
    /\ result' = [result EXCEPT ![t] = Pending]
    /\ snap' = [snap EXCEPT ![t] = NoSnap]
    /\ trace' = [trace EXCEPT ![t] = NoTrace]
    /\ seen' = [u \in Threads |->
                  IF u = t THEN {v \in Threads : v # t /\ Active(v)}
                  ELSE IF Active(u) THEN seen[u] \cup {t} ELSE seen[u]]
    /\ UNCHANGED <<shared, history>>

\* KeyTriple::new(app_name, ProviderID::MbedCrypto, key_name), op.attributes,
\* and the state the handler finds when the lock is granted
Enter(t, kind, key_triple, attrs) ==
    /\ op' = [op EXCEPT ![t] = [kind |-> kind, key_triple |-> key_triple,
                                attributes |-> attrs]]
    /\ snap' = [snap EXCEPT ![t] = [store |-> key_info_store,
                                    ctr |-> id_counter, bk |-> backend]]

\* self.key_info_store.write().expect(..) of generate, import and destroy
AcquireWrite(t, kind, key_triple, attrs) ==
    /\ pc[t] = "lock_store"
    /\ kind \in {"generate", "import", "destroy"}
    /\ CanWrite(store_lock)
    /\ store_lock' = [store_lock EXCEPT !.writer = t]
    /\ pc' = [pc EXCEPT ![t] = IF kind = "destroy" THEN "get_key_id"
                                ELSE "key_info_exists"]
    /\ Enter(t, kind, key_triple, attrs)
    /\ UNCHANGED <<key_info_store, key_handle_mutex, id_counter, backend,
                   key_id, locals, result, trace, seen, history, nops>>

\* self.key_info_store.read().expect(..) of export_public
AcquireRead(t, key_triple) ==
    /\ pc[t] = "lock_store"
    /\ CanRead(store_lock)
    /\ store_lock' = [store_lock EXCEPT !.readers = @ \cup {t}]
    /\ pc' = [pc EXCEPT ![t] = "get_key_id"]
    /\ Enter(t, "export_public", key_triple, 0)
    /\ UNCHANGED <<key_info_store, key_handle_mutex, id_counter, backend,
                   key_id, locals, result, trace, seen, history, nops>>

\* a handler's result is decided: record it and go on to drop the guards
Decide(t, status) ==
    /\ result' = [result EXCEPT ![t] = status]
    /\ pc' = [pc EXCEPT ![t] = Ret(t)]

StoreErr(t) == trace' = [trace EXCEPT ![t].store_err = TRUE]
BackendCall(t, failed) ==
    trace' = [trace EXCEPT ![t].backend_calls = @ + 1,
                           ![t].backend_err = @ \/ failed]

\* key_info_exists(&key_triple, &*store_handle)? and the AlreadyExists return
KeyInfoExists(t) ==
    /\ pc[t] = "key_info_exists"
    /\ \/ /\ Decide(t, KeyInfoManagerError)      \* exists() answered Err
          /\ StoreErr(t)
       \/ /\ StoreExists(key_info_store, op[t].key_triple)
          /\ Decide(t, PsaErrorAlreadyExists)
          /\ UNCHANGED trace
       \/ /\ ~StoreExists(key_info_store, op[t].key_triple)
          /\ pc' = [pc EXCEPT ![t] = "fetch_add"]
          /\ UNCHANGED <<result, trace>>
    /\ UNCHANGED <<shared, op, key_id, locals, snap, seen, history, nops>>

\* create_key_id: max_current_id.fetch_add(1, Relaxed) + 1
CreateKeyIdFetchAdd(t) ==
    /\ pc[t] = "fetch_add"
    /\ id_counter' = FetchAdd(id_counter)
    /\ key_id' = [key_id EXCEPT ![t] = NewKeyId(id_counter)]
    /\ pc' = [pc EXCEPT ![t] = "check_max"]
    /\ UNCHANGED <<key_info_store, store_lock, key_handle_mutex, backend, op,
                   locals, result, snap, trace, seen, history, nops>>

\* create_key_id: the limit branch, store(PSA_KEY_ID_USER_MAX) and the Err
CreateKeyIdClamp(t) ==
    /\ pc[t] = "check_max"
    /\ LimitReached(key_id[t])
    /\ id_counter' = ClampValue
    /\ Decide(t, PsaErrorInsufficientMemory)
    /\ UNCHANGED <<key_info_store, store_lock, key_handle_mutex, backend, op,
                   key_id, locals, snap, trace, seen, history, nops>>

\* create_key_id: store_handle.insert(key_triple.clone(), key_info)
CreateKeyIdInsert(t) ==
    /\ pc[t] = "check_max"
    /\ ~LimitReached(key_id[t])
    /\ \/ /\ Decide(t, KeyInfoManagerError)      \* insert() answered Err
          /\ StoreErr(t)
          /\ UNCHANGED key_info_store
       \/ /\ key_info_store' = StoreInsert(key_info_store, op[t].key_triple,
                                           KeyInfo(key_id[t], op[t].attributes))
          /\ pc' = [pc EXCEPT ![t] = "lock_guard"]
          /\ UNCHANGED <<result, trace>>
    /\ UNCHANGED <<store_lock, key_handle_mutex, id_counter, backend, op, key_id,
                   locals, snap, seen, history, nops>>

\* get_key_id(&key_triple, &*store_handle)? of export_public and destroy
GetKeyId(t) ==
    /\ pc[t] = "get_key_id"
    /\ LET key_info == key_info_store[op[t].key_triple] IN
       \/ /\ Decide(t, KeyInfoManagerError)      \* get() answered Err
          /\ StoreErr(t)
          /\ UNCHANGED key_id
       \/ /\ key_info = None
          /\ Decide(t, NoRecordStatus)
          /\ UNCHANGED <<key_id, trace>>
       \/ /\ key_info # None
          /\ Len(key_info.id) # 4
          /\ Decide(t, KeyInfoManagerError)
          /\ UNCHANGED <<key_id, trace>>
       \/ /\ key_info # None
          /\ Len(key_info.id) = 4
          /\ key_id' = [key_id EXCEPT ![t] = FromNeBytes(key_info.id)]
          /\ pc' = [pc EXCEPT ![t] = "lock_guard"]
          /\ UNCHANGED <<result, trace>>
    /\ UNCHANGED <<shared, op, locals, snap, seen, history, nops>>

\* self.key_handle_mutex.lock().expect(..)
LockGuard(t) ==
    /\ pc[t] = "lock_guard"
    /\ CanLock(key_handle_mutex)
    /\ key_handle_mutex' = t
    /\ pc' = [pc EXCEPT ![t] = CASE op[t].kind \in CreateKinds -> "create"
                                 [] op[t].kind = "destroy" -> "destroy"
                                 [] OTHER -> "from_key_id"]
    /\ trace' = [trace EXCEPT ![t].guard = TRUE]
    /\ UNCHANGED <<key_info_store, store_lock, id_counter, backend, op, key_id,
                   locals, result, snap, seen, history, nops>>

\* the backend call of generate / import, and the Err arm's rollback:
\* psa_crypto_key_management::generate(key_attributes, Some(key_id))
BackendCreate(t) ==
    /\ pc[t] = "create"
    /\ \/ /\ backend' = BackendCreated(backend, key_id[t], op[t].attributes)
          /\ BackendCall(t, FALSE)
          /\ Decide(t, Success)
          /\ issued' = Append(issued, key_id[t])
          /\ bound' = [bound EXCEPT ![op[t].key_triple] = Append(@, key_id[t])]
          /\ UNCHANGED burned
       \/ /\ BackendCall(t, TRUE)                \* the backend answered Err
          /\ pc' = [pc EXCEPT ![t] = "rollback"]
          /\ burned' = burned \cup {key_id[t]}
          /\ UNCHANGED <<backend, result, issued, bound>>
    /\ UNCHANGED <<key_info_store, store_lock, key_handle_mutex, id_counter, op,
                   key_id, locals, snap, seen, remove_failed, nops>>

PsaGenerateKey(t) == op[t].kind = "generate" /\ BackendCreate(t)
PsaImportKey(t) == op[t].kind = "import" /\ BackendCreate(t)

\* remove_key_id: Err(string) => Err(to_response_status(string)), passed on by
\* the ? of the caller instead of the caller's own result
RemoveErrMasked(ok_status) == ok_status
RemoveErrStatus(ok_status) == KeyInfoManagerError

\* remove_key_id(&key_triple, &mut *store_handle)
RemoveKeyId(t, ok_status) ==
    /\ id_counter' = CounterAfterRemove(id_counter)
    /\ \/ /\ key_info_store' = StoreRemove(key_info_store, op[t].key_triple)
          /\ Decide(t, ok_status)
          /\ UNCHANGED <<trace, remove_failed>>
       \/ /\ Decide(t, RemoveErrStatus(ok_status))  \* remove() answered Err
          /\ StoreErr(t)
          /\ remove_failed' = remove_failed \cup {op[t].key_triple}
          /\ UNCHANGED key_info_store
    /\ UNCHANGED <<store_lock, key_handle_mutex, backend, op, key_id, locals,
                   snap, seen, issued, burned, bound, nops>>

\* (an Err arm that returns the backend error without removing the mapping)
RollbackSkipped(t) ==
    /\ pc[t] = "rollback"
    /\ Decide(t, BackendError)
    /\ UNCHANGED <<shared, op, key_id, locals, snap, trace, seen, history, nops>>

\* Err(error) arm of generate / import: remove_key_id(..)?; Err(error)
Rollback(t) ==
    /\ pc[t] = "rollback"
    /\ RemoveKeyId(t, BackendError)

\* (a destroy whose Err arm removes the mapping all the same)
PsaDestroyKeyRemoveAnyway(t) ==
    /\ pc[t] = "destroy"
    /\ \/ /\ key_id[t] \in DOMAIN backend
          /\ backend' = BackendDestroyed(backend, key_id[t])
          /\ BackendCall(t, FALSE)
       \/ /\ BackendCall(t, TRUE)
          /\ UNCHANGED backend
    /\ pc' = [pc EXCEPT ![t] = "remove"]
    /\ UNCHANGED <<key_info_store, store_lock, key_handle_mutex, id_counter, op,
                   key_id, locals, result, snap, seen, history, nops>>

\* psa_crypto_key_management::destroy(id) and the Err arm of destroy.
\* The backend only destroys a key it holds.
PsaDestroyKey(t) ==
    /\ pc[t] = "destroy"
    /\ \/ /\ key_id[t] \in DOMAIN backend
          /\ backend' = BackendDestroyed(backend, key_id[t])
          /\ BackendCall(t, FALSE)
          /\ pc' = [pc EXCEPT ![t] = "remove"]
          /\ UNCHANGED result
       \/ /\ BackendCall(t, TRUE)                \* the backend answered Err
          /\ Decide(t, BackendError)
          /\ UNCHANGED backend
    /\ UNCHANGED <<key_info_store, store_lock, key_handle_mutex, id_counter, op,
                   key_id, locals, snap, seen, history, nops>>

\* Ok(()) arm of destroy: remove_key_id(..)?; Ok(Result {})
DestroyRemove(t) ==
    /\ pc[t] = "remove"
    /\ RemoveKeyId(t, Success)

\* key_attributes.export_key_output_size(): bytes needed for the public key
ExportKeyOutputSize(attrs) == attrs

Zeros(n) == [i \in 1..n |-> 0]

\* buffer.resize(export_length, 0)
ResizeNone(buf, n) == buf
Resize(buf, n) ==
    IF n <= Len(buf) THEN SubSeq(buf, 1, n)
    ELSE buf \o Zeros(n - Len(buf))

\* key::Attributes::from_key_id(id)?, export_key_output_size()? and
\* vec![0u8; buffer_size]
ExportAttributes(t) ==
    /\ pc[t] = "from_key_id"
    /\ \/ /\ key_id[t] \in DOMAIN backend
          /\ buffer' = [buffer EXCEPT
                          ![t] = Zeros(ExportKeyOutputSize(backend[key_id[t]]))]
          /\ BackendCall(t, FALSE)
          /\ pc' = [pc EXCEPT ![t] = "export_public"]
          /\ UNCHANGED result
       \/ /\ BackendCall(t, TRUE)                \* the backend answered Err
          /\ Decide(t, BackendError)
          /\ UNCHANGED buffer
    /\ UNCHANGED <<shared, op, key_id, export_length, snap, seen, history, nops>>

\* export_public(id, &mut buffer)?, buffer.resize(export_length, 0) and Ok
PsaExportPublicKey(t) ==
    /\ pc[t] = "export_public"
    /\ \/ /\ key_id[t] \in DOMAIN backend
          /\ \E n \in 1..Len(buffer[t]) :
               /\ export_length' = [export_length EXCEPT ![t] = n]
               /\ buffer' = [buffer EXCEPT
                               ![t] = Resize([i \in 1..Len(@) |->
                                                IF i <= n THEN 1 ELSE 0], n)]
          /\ BackendCall(t, FALSE)
          /\ Decide(t, Success)
       \/ /\ BackendCall(t, TRUE)                \* the backend answered Err
          /\ Decide(t, BackendError)
          /\ UNCHANGED locals
    /\ UNCHANGED <<shared, op, key_id, snap, seen, history, nops>>

\* end of scope: _guard is dropped first
DropGuardKeep(t) ==
    /\ pc[t] = "drop_guard"
    /\ pc' = [pc EXCEPT ![t] = "drop_store"]
    /\ UNCHANGED <<key_info_store, store_lock, key_handle_mutex, id_counter,
                   backend, op, key_id, locals, result, snap, trace, seen,
                   history, nops>>
DropGuard(t) ==
    /\ pc[t] = "drop_guard"
    /\ key_handle_mutex' = NoThread
    /\ pc' = [pc EXCEPT ![t] = "drop_store"]
    /\ UNCHANGED <<key_info_store, store_lock, id_counter, backend, op, key_id,
                   locals, result, snap, trace, seen, history, nops>>

\* end of scope: store_handle is dropped and the handler has returned.
\* What a finished generate call leaves behind (its operation, its result and
\* its history) is kept while another call is still running, to compare
\* concurrent calls; everything else is forgotten on return.
DropStoreHandle(t) ==
    /\ pc[t] = "drop_store"
    /\ store_lock' = [writer |-> IF store_lock.writer = t THEN NoThread
                                 ELSE store_lock.writer,
                      readers |-> store_lock.readers \ {t}]
    /\ pc' = [pc EXCEPT ![t] = "idle"]
    /\ LET running == \E u \in Threads \ {t} : Active(u)
           keep(u) == running /\ (u # t \/ op[t].kind = "generate")
       IN  /\ op' = [u \in Threads |-> IF keep(u) THEN op[u] ELSE NoOp]
           /\ key_id' = [u \in Threads |-> IF keep(u) THEN key_id[u] ELSE 0]
           /\ result' = [u \in Threads |-> IF keep(u) THEN result[u] ELSE Pending]
           /\ trace' = [u \in Threads |-> IF keep(u) THEN trace[u] ELSE NoTrace]
           /\ seen' = [u \in Threads |-> IF keep(u) THEN seen[u] ELSE {}]
           /\ snap' = [u \in Threads |->
                         IF keep(u) /\ u # t THEN snap[u]
                         ELSE IF keep(u) THEN [snap[u] EXCEPT !.bk = << >>]
                         ELSE NoSnap]
           /\ buffer' = [u \in Threads |->
                           IF keep(u) /\ u # t THEN buffer[u] ELSE << >>]
           /\ export_length' = [u \in Threads |->
                                  IF keep(u) /\ u # t THEN export_length[u] ELSE 0]
    /\ UNCHANGED <<key_info_store, key_handle_mutex, id_counter, backend,
                   history, nops>>

Next ==
    \E t \in Threads :
        \/ Call(t)
        \/ \E kind \in Kinds \ {"export_public"}, key_triple \in Triples :
               \E attrs \in OpAttributes(kind) :
                   AcquireWrite(t, kind, key_triple, attrs)
        \/ \E key_triple \in Triples : AcquireRead(t, key_triple)
        \/ KeyInfoExists(t)
        \/ CreateKeyIdFetchAdd(t)
        \/ CreateKeyIdClamp(t)
        \/ CreateKeyIdInsert(t)
        \/ GetKeyId(t)
        \/ LockGuard(t)
        \/ PsaGenerateKey(t)
        \/ PsaImportKey(t)
        \/ Rollback(t)
        \/ PsaDestroyKey(t)
        \/ DestroyRemove(t)
        \/ ExportAttributes(t)
        \/ PsaExportPublicKey(t)
        \/ DropGuard(t)
        \/ DropStoreHandle(t)

Spec == Init /\ [][Next]_vars

\* the steps of a handler that has been called: the lock grants, the store
\* and backend calls (each returns), the drops
Progress(t) ==
    \/ \E kind \in Kinds \ {"export_public"}, key_triple \in Triples :
           \E attrs \in OpAttributes(kind) :
               AcquireWrite(t, kind, key_triple, attrs)
    \/ \E key_triple \in Triples : AcquireRead(t, key_triple)
    \/ KeyInfoExists(t)
    \/ CreateKeyIdFetchAdd(t)
    \/ CreateKeyIdClamp(t)
    \/ CreateKeyIdInsert(t)
    \/ GetKeyId(t)
    \/ LockGuard(t)
    \/ PsaGenerateKey(t)
    \/ PsaImportKey(t)
    \/ Rollback(t)
    \/ PsaDestroyKey(t)
    \/ DestroyRemove(t)
    \/ ExportAttributes(t)
    \/ PsaExportPublicKey(t)
    \/ DropGuard(t)
    \/ DropStoreHandle(t)

\* fair scheduling: a thread whose next step stays possible takes it.  Clients
\* are free never to call.
LiveSpec == Spec /\ \A t \in Threads : WF_vars(Progress(t))

\* ================================================================ claims
StoreId(key_info) == FromNeBytes(key_info.id)
Triple(t) == op[t].key_triple
Decided(t) == result[t] # Pending
Clean(t) == ~trace[t].store_err /\ ~trace[t].backend_err
SnapRec(t) == snap[t].store[Triple(t)]
Creating(t) == op[t].kind \in CreateKinds
Concurrent(t, u) == u \in seen[t] /\ t \in seen[u]
Quiescent == \A t \in Threads : pc[t] = "idle"
Live(store, table, key_triple) ==
    store[key_triple] # None /\ StoreId(store[key_triple]) \in DOMAIN table

\* two generate calls, both decided, that ran concurrently with each other and
\* with nothing else, none of their store or backend calls failing
ConcurrentGenerates(t, u) ==
    /\ t # u
    /\ Decided(t) /\ Decided(u)
    /\ op[t].kind = "generate" /\ op[u].kind = "generate"
    /\ Concurrent(t, u)
    /\ seen[t] \cup seen[u] \subseteq {t, u}
    /\ Clean(t) /\ Clean(u)

\* C1: two concurrent generate calls on one triple that was absent, with the
\* counter below the limit and no failing store or backend call, end with one
\* Success and one PsaErrorAlreadyExists; concurrent generate calls on distinct
\* absent triples all succeed and their stored identifiers differ.
C1_ConcurrentGenerate ==
    \A t, u \in Threads :
        ConcurrentGenerates(t, u) =>
            /\ ( /\ Triple(t) = Triple(u)
                 /\ \E x \in {t, u} : SnapRec(x) = None
                 /\ \A x \in {t, u} :
                        SnapRec(x) = None => snap[x].ctr < PSA_KEY_ID_USER_MAX )
               => {result[t], result[u]} = {Success, PsaErrorAlreadyExists}
            /\ ( /\ Triple(t) # Triple(u)
                 /\ \A x \in {t, u} :
                        SnapRec(x) = None /\ snap[x].ctr < PSA_KEY_ID_USER_MAX )
               => /\ result[t] = Success /\ result[u] = Success
                  /\ key_id[t] # key_id[u]
                  /\ key_info_store[Triple(t)] # None
                  /\ key_info_store[Triple(u)] # None
                  /\ key_info_store[Triple(t)].id # key_info_store[Triple(u)].id

C1_Witness ==
    \E t, u \in Threads :
        /\ ConcurrentGenerates(t, u)
        /\ Triple(t) = Triple(u)
        /\ SnapRec(t) = None
        /\ result[t] = Success
        /\ result[u] = PsaErrorAlreadyExists

\* C2: the identifiers bound by successful generate and import calls are
\* pairwise distinct, whatever was destroyed in between.
C2_NeverReissued ==
    \A i, j \in DOMAIN issued : i # j => issued[i] # issued[j]

C2_Witness ==
    /\ Len(issued) >= 2
    /\ issued[1] \notin DOMAIN backend
    /\ \A k \in Triples :
           key_info_store[k] # None => StoreId(key_info_store[k]) # issued[1]

\* a create call (generate or import) that is returning after its backend
\* create call failed
CreateFailedInBackend(t) ==
    Returning(t) /\ Creating(t) /\ trace[t].backend_err

\* C3 as stated: once the backend create call of generate(T) or import(T) has
\* failed, T has no record when the operation returns, and the identifier the
\* attempt consumed is never issued later.
C3_AsStated ==
    /\ \A t \in Threads :
           CreateFailedInBackend(t) => key_info_store[Triple(t)] = None
    /\ burned \cap Range(issued) = {}

\* C3 amended: once the backend create call has failed, T has no record when
\* the operation returns provided the rollback removal succeeded; when the
\* rollback removal fails the operation returns the store error and the
\* mapping of T to the consumed identifier stays.  Either way the consumed
\* identifier is never issued later.
C3_RollbackOnBackendFailure ==
    /\ \A t \in Threads :
           CreateFailedInBackend(t) =>
               /\ key_id[t] \in burned
               /\ ~trace[t].store_err =>
                      /\ result[t] = BackendError
                      /\ key_info_store[Triple(t)] = None
               /\ trace[t].store_err =>
                      /\ result[t] = KeyInfoManagerError
                      /\ key_info_store[Triple(t)] =
                             KeyInfo(key_id[t], op[t].attributes)
    /\ burned \cap Range(issued) = {}

C3_Witness ==
    /\ \E t \in Threads :
           /\ CreateFailedInBackend(t)
           /\ result[t] = BackendError
           /\ key_info_store[Triple(t)] = None
    /\ \E b \in burned : \E i \in DOMAIN issued : issued[i] > b

NoOrphanedKey ==
    \A k \in DOMAIN backend :
        \E key_triple \in Triples :
            /\ key_info_store[key_triple] # None
            /\ StoreId(key_info_store[key_triple]) = k

Dangling(key_triple) ==
    /\ key_info_store[key_triple] # None
    /\ StoreId(key_info_store[key_triple]) \notin DOMAIN backend

\* C4 as stated: whenever no operation is in progress, a triple has a record
\* exactly when the backend holds the key of that record, and no backend key
\* is without a record.
C4_AsStated ==
    Quiescent =>
        /\ \A key_triple \in Triples : ~Dangling(key_triple)
        /\ NoOrphanedKey

\* C4 amended: whenever no operation is in progress, every backend key has a
\* record pointing at it, and the records whose key is not in the backend are
\* exactly those of the triples on which a store removal failed (the rollback
\* after a failed create, or the removal after a successful backend destroy).
C4_StoreBackendAgreement ==
    Quiescent =>
        /\ NoOrphanedKey
        /\ \A key_triple \in Triples :
               Dangling(key_triple) <=> key_triple \in remove_failed

C4_Witness ==
    /\ Quiescent
    /\ \E key_triple \in Triples : Live(key_info_store, backend, key_triple)
    /\ \E key_triple \in Triples : Dangling(key_triple)
    /\ burned # {}

\* a create call that found the counter at the limit when it got the lock
CreateAtLimit(t) ==
    Returning(t) /\ Creating(t) /\ snap[t].ctr = PSA_KEY_ID_USER_MAX

\* C5 as stated: once the counter has reached the limit, every generate or
\* import call fails with PsaErrorInsufficientMemory and leaves the counter at
\* the limit.
C5_AsStated ==
    \A t \in Threads :
        CreateAtLimit(t) =>
            /\ result[t] = PsaErrorInsufficientMemory
            /\ id_counter = PSA_KEY_ID_USER_MAX

\* C5 amended: once the counter has reached the limit, every generate or
\* import call fails and leaves the counter at the limit and the store as it
\* was: with PsaErrorInsufficientMemory when the triple has no record, with
\* PsaErrorAlreadyExists when it has one, with the store error when the
\* existence check fails.
C5_ExhaustedAtLimit ==
    \A t \in Threads :
        CreateAtLimit(t) =>
            /\ id_counter = PSA_KEY_ID_USER_MAX
            /\ key_info_store = snap[t].store
            /\ backend = snap[t].bk
            /\ result[t] = ( IF trace[t].store_err THEN KeyInfoManagerError
                             ELSE IF SnapRec(t) # None THEN PsaErrorAlreadyExists
                             ELSE PsaErrorInsufficientMemory )

C5_Witness ==
    \E t \in Threads :
        /\ CreateAtLimit(t)
        /\ result[t] = PsaErrorInsufficientMemory
        /\ issued # << >>

\* C6: destroy(T) removes the mapping of T only once the backend has removed
\* T's key; when the backend removal fails destroy returns the backend error
\* and leaves the record of T, and the backend key table, as they were.
C6_DestroyBackendFirst ==
    \A t \in Threads :
        /\ pc[t] = "remove" =>
               /\ ~trace[t].backend_err
               /\ key_id[t] \notin DOMAIN backend
               /\ key_info_store = snap[t].store
        /\ (Returning(t) /\ op[t].kind = "destroy") =>
               /\ key_info_store[Triple(t)] # SnapRec(t) =>
                      /\ ~trace[t].backend_err
                      /\ StoreId(SnapRec(t)) \in DOMAIN snap[t].bk
                      /\ StoreId(SnapRec(t)) \notin DOMAIN backend
               /\ trace[t].backend_err =>
                      /\ result[t] = BackendError
                      /\ key_info_store = snap[t].store
                      /\ backend = snap[t].bk

C6_Witness ==
    \E t \in Threads :
        /\ Returning(t) /\ op[t].kind = "destroy"
        /\ trace[t].backend_err
        /\ Live(key_info_store, backend, Triple(t))

\* a create call on a triple that had a record when the call got the lock
CreateOnExisting(t) ==
    Returning(t) /\ Creating(t) /\ SnapRec(t) # None

\* C7 as stated: generate or import on a triple that has a record fails with
\* PsaErrorAlreadyExists, calls no backend function and leaves the record and
\* the counter as they were.
C7_AsStated ==
    \A t \in Threads :
        CreateOnExisting(t) =>
            /\ result[t] = PsaErrorAlreadyExists
            /\ trace[t].backend_calls = 0
            /\ key_info_store[Triple(t)] = SnapRec(t)
            /\ id_counter = snap[t].ctr

\* C7 amended: generate or import on a triple that has a record fails, with
\* PsaErrorAlreadyExists when the existence check answers and with the store
\* error when the existence check itself fails; it calls no backend function
\* and leaves the record and the counter as they were.
C7_AlreadyExists ==
    \A t \in Threads :
        CreateOnExisting(t) =>
            /\ result[t] = ( IF trace[t].store_err THEN KeyInfoManagerError
                             ELSE PsaErrorAlreadyExists )
            /\ trace[t].backend_calls = 0
            /\ ~trace[t].guard
            /\ key_info_store = snap[t].store
            /\ id_counter = snap[t].ctr
            /\ backend = snap[t].bk

C7_Witness ==
    \E t \in Threads :
        /\ CreateOnExisting(t)
        /\ result[t] = PsaErrorAlreadyExists
        /\ Live(key_info_store, backend, Triple(t))

\* C8: generate(T) on a triple without a record, the counter below the limit
\* and no store or backend call failing, succeeds; then T has a record that
\* holds the identifier counter_before + 1 and the attributes passed in, and
\* the counter has advanced by exactly one.
C8_GenerateBinds ==
    \A t \in Threads :
        ( /\ Returning(t) /\ op[t].kind = "generate"
          /\ SnapRec(t) = None
          /\ snap[t].ctr < PSA_KEY_ID_USER_MAX
          /\ Clean(t) )
        => /\ result[t] = Success
           /\ StoreExists(key_info_store, Triple(t))
           /\ Len(key_info_store[Triple(t)].id) = 4
           /\ StoreId(key_info_store[Triple(t)]) = snap[t].ctr + 1
           /\ key_info_store[Triple(t)].attributes = op[t].attributes
           /\ id_counter = snap[t].ctr + 1

C8_Witness ==
    \E t \in Threads :
        /\ Returning(t) /\ op[t].kind = "generate"
        /\ SnapRec(t) = None /\ Clean(t)
        /\ result[t] = Success
        /\ op[t].attributes = 2
        /\ snap[t].ctr > 0

\* C9: a destroy(T) on a triple with a record, none of its store or backend
\* calls failing, succeeds and leaves T without a record; no destroy changes
\* the counter; the identifiers a triple is bound to over time are strictly
\* increasing.
C9_DestroyRetires ==
    /\ \A t \in Threads :
           (Returning(t) /\ op[t].kind = "destroy") =>
               /\ id_counter = snap[t].ctr
               /\ (Clean(t) /\ SnapRec(t) # None) =>
                      /\ result[t] = Success
                      /\ ~StoreExists(key_info_store, Triple(t))
    /\ \A key_triple \in Triples :
           \A i, j \in DOMAIN bound[key_triple] :
               i < j => bound[key_triple][i] < bound[key_triple][j]

C9_Witness ==
    \E key_triple \in Triples :
        /\ Len(bound[key_triple]) = 2
        /\ Live(key_info_store, backend, key_triple)
        /\ StoreId(key_info_store[key_triple]) = bound[key_triple][2]

\* a destroy or export_public call on a triple that had no record when the
\* call got the lock
LookupOnAbsent(t) ==
    /\ Returning(t)
    /\ op[t].kind \in {"destroy", "export_public"}
    /\ SnapRec(t) = None

\* C10 as stated: destroy or export_public on a triple without a record fails
\* with PsaErrorDoesNotExist, without taking the backend guard or calling the
\* backend, and leaves the store, the counter and the backend as they were.
C10_AsStated ==
    \A t \in Threads :
        LookupOnAbsent(t) =>
            /\ result[t] = PsaErrorDoesNotExist
            /\ ~trace[t].guard
            /\ trace[t].backend_calls = 0
            /\ key_info_store = snap[t].store
            /\ id_counter = snap[t].ctr
            /\ backend = snap[t].bk

\* C10 amended: destroy or export_public on a triple without a record fails,
\* with PsaErrorDoesNotExist when the store lookup answers and with the store
\* error when the lookup itself fails; it neither takes the backend guard nor
\* calls the backend, and leaves the store, the counter and the backend as
\* they were.
C10_DoesNotExist ==
    \A t \in Threads :
        LookupOnAbsent(t) =>
            /\ result[t] = ( IF trace[t].store_err THEN KeyInfoManagerError
                             ELSE PsaErrorDoesNotExist )
            /\ ~trace[t].guard
            /\ key_handle_mutex # t
            /\ trace[t].backend_calls = 0
            /\ key_info_store = snap[t].store
            /\ id_counter = snap[t].ctr
            /\ backend = snap[t].bk

C10_Witness ==
    \E t \in Threads :
        /\ LookupOnAbsent(t)
        /\ result[t] = PsaErrorDoesNotExist
        /\ \E key_triple \in Triples : Live(key_info_store, backend, key_triple)

\* positions at which a thread is inside a backend call
BackendPcs == {"create", "destroy", "from_key_id", "export_public"}
InBackend(t) == pc[t] \in BackendPcs
HoldsStore(t) == store_lock.writer = t \/ t \in store_lock.readers

\* C11: at any time at most one operation is inside a backend call, and the
\* one that is holds the backend guard.
C11_BackendSerialized ==
    /\ \A t \in Threads : InBackend(t) => key_handle_mutex = t
    /\ Cardinality({t \in Threads : InBackend(t)}) <= 1

C11_Witness ==
    \E t, u \in Threads :
        /\ pc[t] = "export_public" /\ key_handle_mutex = t
        /\ pc[u] = "lock_guard" /\ HoldsStore(u)

\* C12: an operation in which a store call or a backend call failed never
\* returns Success; when the backend create failed and the rollback removal
\* failed too, it returns the store error of the rollback.
C12_FailuresSurface ==
    \A t \in Threads :
        Returning(t) =>
            /\ (trace[t].store_err \/ trace[t].backend_err) =>
                   result[t] \in {KeyInfoManagerError, BackendError}
            /\ (Creating(t) /\ trace[t].backend_err /\ trace[t].store_err) =>
                   result[t] = KeyInfoManagerError
            /\ result[t] = Success => Clean(t)

C12_Witness ==
    \E t \in Threads :
        /\ Returning(t) /\ Creating(t)
        /\ trace[t].backend_err /\ trace[t].store_err
        /\ result[t] = KeyInfoManagerError

\* an operation that is returning a failure
Failed(t) == Returning(t) /\ result[t] # Success

\* the records of the other triples, and the backend keys they point at, are
\* as they were when the operation of t got the store lock
OthersUntouched(t) ==
    \A key_triple \in Triples \ {Triple(t)} :
        /\ key_info_store[key_triple] = snap[t].store[key_triple]
        /\ key_info_store[key_triple] # None =>
               LET k == StoreId(key_info_store[key_triple]) IN
               /\ k \in DOMAIN backend <=> k \in DOMAIN snap[t].bk
               /\ k \in DOMAIN backend => backend[k] = snap[t].bk[k]

\* C13 as stated: a failed operation on T leaves everything a later operation
\* on another triple depends on as it was: the records and keys of the other
\* triples, and whether the allocator is exhausted.
C13_AsStated ==
    \A t \in Threads :
        Failed(t) =>
            /\ OthersUntouched(t)
            /\ id_counter = PSA_KEY_ID_USER_MAX <=>
                   snap[t].ctr = PSA_KEY_ID_USER_MAX

\* C13 amended: a failed operation on T leaves the records and keys of the
\* other triples as they were, and the counter as it was or one higher (a
\* failed generate/import that passed the existence check has consumed one
\* identifier), so a later generate/import may be the one that finds the
\* allocator exhausted.
C13_FailureFrame ==
    \A t \in Threads :
        Failed(t) =>
            /\ OthersUntouched(t)
            /\ id_counter \in {snap[t].ctr, snap[t].ctr + 1}
            /\ id_counter <= PSA_KEY_ID_USER_MAX
            /\ id_counter # snap[t].ctr =>
                   /\ Creating(t)
                   /\ SnapRec(t) = None
                   /\ key_id[t] = id_counter

C13_Witness ==
    \E t \in Threads :
        /\ Failed(t)
        /\ id_counter = snap[t].ctr + 1
        /\ \E key_triple \in Triples \ {Triple(t)} :
               Live(key_info_store, backend, key_triple)

\* an export_public call that is returning Success
Exported(t) ==
    Returning(t) /\ op[t].kind = "export_public" /\ result[t] = Success

\* C14: a successful export_public returns as many bytes as the backend
\* reported, at most the size of the buffer allocated from the key's
\* attributes, all of them written by the backend, and leaves the store and
\* the counter as they were.
C14_ExportLength ==
    \A t \in Threads :
        Exported(t) =>
            /\ Len(buffer[t]) = export_length[t]
            /\ export_length[t] <= ExportKeyOutputSize(backend[key_id[t]])
            /\ \A i \in DOMAIN buffer[t] : buffer[t][i] = 1
            /\ key_info_store = snap[t].store
            /\ id_counter = snap[t].ctr

C14_Witness ==
    \E t \in Threads :
        /\ Exported(t)
        /\ export_length[t] = 1
        /\ ExportKeyOutputSize(backend[key_id[t]]) = 2

\* a generate, import or destroy between the grant of its write lock and the
\* drop of store_handle
InTransaction(t) ==
    /\ pc[t] \notin {"idle", "lock_store"}
    /\ op[t].kind \in {"generate", "import", "destroy"}

\* the steps of a transaction that come before its own first store write
BeforeWrite(t) ==
    \/ pc[t] \in {"key_info_exists", "fetch_add", "check_max", "get_key_id"}
    \/ op[t].kind = "destroy" /\ pc[t] \in {"lock_guard", "destroy"}

\* a created mapping whose backend generate / import has not answered yet
Reserved(t) ==
    /\ Creating(t)
    /\ pc[t] \in {"lock_guard", "create", "rollback"}

\* C15: a generate, import or destroy holds the exclusive store lock from
\* before its existence check or lookup until store_handle is dropped after
\* the backend call, the rollback and the removal; meanwhile no other
\* operation holds store access (every other thread is idle or waiting for
\* the lock), the store changes only at the operation's own triple, and no
\* export_public holds read access while a created mapping awaits its key.
C15_ExclusiveTransaction ==
    \A t \in Threads :
        /\ InTransaction(t) =>
               /\ store_lock.writer = t
               /\ store_lock.readers = {}
               /\ \A u \in Threads \ {t} : pc[u] \in {"idle", "lock_store"}
               /\ \A key_triple \in Triples \ {Triple(t)} :
                      key_info_store[key_triple] = snap[t].store[key_triple]
               /\ BeforeWrite(t) => key_info_store = snap[t].store
        /\ Reserved(t) => \A u \in Threads : ~(u \in store_lock.readers)

C15_Witness ==
    \E t, u \in Threads :
        /\ Reserved(t) /\ pc[t] = "create" /\ store_lock.writer = t
        /\ pc[u] = "lock_store"
        /\ \E key_triple \in Triples \ {Triple(t)} :
               Live(key_info_store, backend, key_triple)

\* the store calls of the handlers: key_info_exists, create_key_id's insert,
\* get_key_id, and remove_key_id in the rollback and in destroy's Ok arm
StoreOpPcs == {"key_info_exists", "check_max", "get_key_id", "rollback", "remove"}

\* the steps at which _guard is in scope
GuardPcs == BackendPcs \cup {"rollback", "remove", "drop_guard"}

SharedBookkeeping(t, u) ==
    /\ t # u
    /\ InTransaction(t) /\ HoldsStore(t)
    /\ pc[u] \notin {"idle", "lock_store"} /\ HoldsStore(u)
    /\ Triple(t) # Triple(u)

\* C17 as stated: an operation on another triple can take store access while a
\* generate, import or destroy is between acquiring and releasing its own:
\* whenever a mutating operation holds store access and another call waits
\* for the store lock, the waiting call can be granted access for some other
\* triple.
C17_AsStated ==
    \A t, u \in Threads :
        (InTransaction(t) /\ HoldsStore(t) /\ pc[u] = "lock_store") =>
            \E key_triple \in Triples \ {Triple(t)} :
                \/ ENABLED AcquireRead(u, key_triple)
                \/ \E kind \in {"generate", "import", "destroy"} :
                       \E attrs \in OpAttributes(kind) :
                           ENABLED AcquireWrite(u, kind, key_triple, attrs)

\* C17 amended: store access is shared only among export_public calls, on the
\* same or on distinct triples; a generate, import or destroy holds it alone
\* whatever the triples, so the state of the claim is never reached and a
\* call that waits for the lock meanwhile cannot be granted it.
C17_SharedOnlyAmongExports ==
    /\ \A t, u \in Threads : ~SharedBookkeeping(t, u)
    /\ \A t, u \in Threads :
           (t # u /\ HoldsStore(t) /\ HoldsStore(u)) =>
               /\ op[t].kind = "export_public" /\ op[u].kind = "export_public"
               /\ store_lock.writer = NoThread
    /\ \A t, u \in Threads :
           (InTransaction(t) /\ pc[u] = "lock_store") =>
               /\ \A key_triple \in Triples : ~ENABLED AcquireRead(u, key_triple)
               /\ \A kind \in {"generate", "import", "destroy"} :
                      \A key_triple \in Triples, attrs \in OpAttributes(kind) :
                          ~ENABLED AcquireWrite(u, kind, key_triple, attrs)

\* two export_public calls on distinct triples hold shared access together,
\* one of them inside its backend call
C17_Witness ==
    \E t, u \in Threads :
        /\ t # u
        /\ {t, u} \subseteq store_lock.readers
        /\ Triple(t) # Triple(u)
        /\ pc[t] = "export_public"
        /\ pc[u] \in {"get_key_id", "lock_guard"}

\* the identifiers create_key_id has returned: the one a generate / import
\* holds after its insert, those in the store, in the backend and in the
\* histories
Allocated ==
    {key_id[t] : t \in {u \in Threads : Reserved(u)}}
        \cup {StoreId(key_info_store[k]) :
                  k \in {j \in Triples : key_info_store[j] # None}}
        \cup DOMAIN backend \cup Range(issued) \cup burned

\* create_key_id between its fetch_add and its store(PSA_KEY_ID_USER_MAX)
Overshot(t) ==
    /\ pc[t] = "check_max"
    /\ key_id[t] = PSA_KEY_ID_USER_MAX + 1
    /\ store_lock.writer = t

\* C18 as stated: the counter is at most MAX in every state, the one between
\* the increment and the clamp included, and allocated identifiers lie in
\* 1..MAX.
C18_AsStated ==
    /\ id_counter <= PSA_KEY_ID_USER_MAX
    /\ \A id \in Allocated : 1 <= id /\ id <= PSA_KEY_ID_USER_MAX

\* C18 amended: the counter is at most MAX + 1; it is MAX + 1 exactly between
\* the increment and the clamp of an exhausted create_key_id, whose caller
\* holds the exclusive store lock, and at most MAX in every other state;
\* every identifier create_key_id returns lies in 1..MAX.
C18_CounterBound ==
    /\ 0 <= id_counter /\ id_counter <= PSA_KEY_ID_USER_MAX + 1
    /\ id_counter = PSA_KEY_ID_USER_MAX + 1 <=> \E t \in Threads : Overshot(t)
    /\ \A id \in Allocated : 1 <= id /\ id <= PSA_KEY_ID_USER_MAX
    /\ \A t \in Threads :
           (Returning(t) /\ result[t] = PsaErrorInsufficientMemory) =>
               id_counter = PSA_KEY_ID_USER_MAX

\* an exhausted allocation has clamped while the last identifier, MAX, is bound
C18_Witness ==
    /\ \E t \in Threads :
           Returning(t) /\ result[t] = PsaErrorInsufficientMemory
    /\ id_counter = PSA_KEY_ID_USER_MAX
    /\ PSA_KEY_ID_USER_MAX \in Allocated

\* C19 as stated: no step of any operation makes the counter smaller.
C19_AsStated == [][id_counter' >= id_counter]_vars

\* C19 amended: the only step that lowers the counter is the clamp of an
\* exhausted create_key_id, from MAX + 1 back to MAX, which undoes that
\* call's own increment; every other step leaves the counter as it was or
\* adds one, so the counter an operation leaves behind is never smaller than
\* the one it found.
C19_MonotoneButClamp ==
    [][/\ id_counter' \in {id_counter, id_counter + 1, id_counter - 1}
       /\ id_counter' < id_counter =>
              /\ id_counter = PSA_KEY_ID_USER_MAX + 1
              /\ id_counter' = PSA_KEY_ID_USER_MAX
              /\ \E t \in Threads :
                     /\ Overshot(t)
                     /\ snap[t].ctr = PSA_KEY_ID_USER_MAX
                     /\ result'[t] = PsaErrorInsufficientMemory]_vars

\* an exhausted create_key_id has raised the counter from MAX and clamped it
\* back
C19_Witness ==
    \E t \in Threads :
        /\ Returning(t)
        /\ result[t] = PsaErrorInsufficientMemory
        /\ key_id[t] = PSA_KEY_ID_USER_MAX + 1
        /\ snap[t].ctr = PSA_KEY_ID_USER_MAX
        /\ id_counter = snap[t].ctr

\* the store lock is taken before the guard and released after it
LockOrder ==
    \A t \in Threads :
        /\ key_handle_mutex = t => HoldsStore(t)
        /\ pc[t] = "lock_store" => key_handle_mutex # t /\ ~HoldsStore(t)
        /\ pc[t] = "lock_guard" => HoldsStore(t) /\ key_handle_mutex # t
        /\ pc[t] = "idle" => key_handle_mutex # t /\ ~HoldsStore(t)

\* while a handler is running, some running handler can take a step
NoDeadlock ==
    (\E t \in Threads : Active(t)) =>
        \E t \in Threads : Active(t) /\ ENABLED Progress(t)

\* C20: every operation takes the store lock before the backend guard and
\* never waits for the store lock while holding the guard; no reachable
\* state is a deadlock; and under fair scheduling every started operation
\* returns, holding neither lock.
C20_LockOrderNoDeadlock ==
    /\ [](LockOrder /\ NoDeadlock)
    /\ \A t \in Threads :
           Active(t) ~> (pc[t] = "idle" /\ ~HoldsStore(t) /\ key_handle_mutex # t)

\* one operation holds both locks while the other waits for the store lock
C20_Witness ==
    \E t, u \in Threads :
        /\ store_lock.writer = t /\ key_handle_mutex = t
        /\ pc[t] \in BackendPcs
        /\ pc[u] = "lock_store"

====
